---- MODULE Spec2Model ----
(***************************************************************************)
(* Verifiable inference clients: VerifiableClaude (transcript proofs via   *)
(* the Reclaim zkFetch / verifyProof collaborators, src/src/index.ts) and  *)
(* VerifiableEigenAI (deterministic re-execution, src/unnamed/part_002).   *)
(*                                                                         *)
(* JavaScript objects are records whose DOMAIN is the set of keys that     *)
(* carry a value: an optional field that is undefined is an absent key.    *)
(* Texts produced by a provider are sequences of tokens, so that           *)
(* max_tokens and stop sequences act on them as they do at a provider.     *)
(***************************************************************************)
EXTENDS Integers, Sequences, FiniteSets, TLC

\* ------------------------------------------------------------------ bounds
\* caller-supplied seeds range over 0..MaxSeed
MaxSeed == 1
\* options.messages arrays have 0..MaxTurns entries
MaxTurns == 1
\* a generate call sets at most MaxTuned of the optional tuning fields
\* (everything but messages and prompt)
MaxTuned == 1
\* calls that may be in flight on the clients at the same time
MaxCalls == 2

\* ------------------------------------------------------- program constants
ANTHROPIC_API_ENDPOINT == "https://api.anthropic.com/v1"
ANTHROPIC_VERSION == "2023-06-01"
EIGENAI_ENDPOINT == "https://eigenai.eigencloud.xyz/v1"
DEFAULT_MODEL == "gpt-oss-120b-f16"
CLAUDE_DEFAULT_MODEL == "claude-3-5-sonnet-20241022"
DefaultMaxTokens == 1024
SeedRange == 2147483647

\* -------------------------------------------------------- JavaScript values
Empty == [x \in {} |-> TRUE]
Undefined == [undefined |-> TRUE]
Has(o, f) == f \in DOMAIN o
\* o.f, which is undefined when the key is absent (object-valued fields)
Get(o, f) == IF Has(o, f) THEN o[f] ELSE Undefined
\* o.f || d for a number: 0 is falsy
OrNum(o, f, d) == IF Has(o, f) /\ o[f] # 0 THEN o[f] ELSE d
\* o.f || d for a string: "" is falsy
OrStr(o, f, d) == IF Has(o, f) /\ o[f] # "" THEN o[f] ELSE d
\* o.f ?? d: only undefined (null) is replaced
Nullish(o, f, d) == IF Has(o, f) THEN o[f] ELSE d
\* a string is truthy unless it is ""
TruthyStr(o, f) == Has(o, f) /\ o[f] # ""

\* JSON.stringify of plain data yields a document; JSON.parse of a text
\* that is not a document raises a SyntaxError.
JsonStringify(v) == [json |-> "document", value |-> v]
NotJson == [json |-> "garbage"]
IsJson(t) == Has(t, "json") /\ t.json = "document"
JsonParse(t) == t.value

\* ------------------------------------------------------------------ inputs
Message(r, c) == [role |-> r, content |-> c]
Turns == {Message("user", "hi"), Message("assistant", "yo")}
RECURSIVE SeqsUpTo(_, _)
SeqsUpTo(S, n) ==
  IF n = 0 THEN {<<>>}
  ELSE LET shorter == SeqsUpTo(S, n - 1)
       IN  shorter \cup {Append(s, x) : s \in shorter, x \in S}
MessageSeqs == SeqsUpTo(Turns, MaxTurns)

\* the ways a caller states the conversation: messages, prompt, both, neither
OptInput ==
  {Empty, [prompt |-> ""], [prompt |-> "hi"]}
    \cup {[messages |-> m] : m \in MessageSeqs}
OptSystem == {Empty, [system |-> "sys"]}
OptMaxTokens == {Empty, [maxTokens |-> 0], [maxTokens |-> 2]}
OptTemperature == {Empty, [temperature |-> 0], [temperature |-> 1]}
OptSeed == {Empty} \cup {[seed |-> s] : s \in 0..MaxSeed}
OptStop == {Empty, [stop |-> <<"K">>]}
OptEigenModel == {Empty, [model |-> "qwen3-32b"]}

Tuned(o) == Cardinality(DOMAIN o \ {"messages", "prompt"}) <= MaxTuned

EigenAIGenerateOptions ==
  {o \in {i @@ s @@ k @@ t @@ d @@ p @@ m :
            i \in OptInput, s \in OptSystem, k \in OptMaxTokens,
            t \in OptTemperature, d \in OptSeed, p \in OptStop,
            m \in OptEigenModel} : Tuned(o)}

\* Math.floor(Math.random() * 2147483647): any integer of 0..2147483646
SeedSamples == (0..MaxSeed) \cup {SeedRange - 1}

\* --------------------------------------------------- the inference provider
\* The provider completes a request deterministically: the full completion
\* depends on model, seed and conversation, is cut before the first stop
\* token and holds at most max_tokens tokens.  Version v2 is the same
\* service after a model update (drift).
RECURSIVE CutAtStop(_, _)
CutAtStop(text, stop) ==
  IF text = <<>> THEN <<>>
  ELSE IF \E i \in 1..Len(stop) : stop[i] = Head(text) THEN <<>>
  ELSE <<Head(text)>> \o CutAtStop(Tail(text), stop)

Take(text, n) == SubSeq(text, 1, IF n < Len(text) THEN n ELSE Len(text))

FullCompletion(version, req) ==
  LET greet == IF req.seed % 2 = 0 THEN <<"O", "K">> ELSE <<"K", "O">>
      cased == IF version = "v2" THEN <<"o", "k">> ELSE greet
      tail  == IF req.messages # <<>>
                  /\ req.messages[Len(req.messages)].role = "user"
               THEN <<"!">> ELSE <<>>
      head  == IF req.model = DEFAULT_MODEL THEN <<>> ELSE <<"Q">>
  IN  head \o cased \o tail

Completion(version, req) ==
  Take(CutAtStop(FullCompletion(version, req),
                 IF Has(req, "stop") THEN req.stop ELSE <<>>),
       req.max_tokens)

ProviderStates == {"v1", "v2", "mute", "down"}

\* client.chat.completions.create(req) as answered by the provider
ChatCompletionsCreate(prov, req) ==
  CASE prov = "down" -> [raised |-> TRUE, message |-> "provider unavailable"]
    [] prov = "mute" -> [raised |-> FALSE,
                         response |-> [id |-> "chatcmpl-1", choices |-> <<>>]]
    [] OTHER -> [raised |-> FALSE,
                 response |-> [id |-> "chatcmpl-1",
                               choices |-> <<[message |->
                                  [content |-> Completion(prov, req)]]>>]]

\* response.choices[0]?.message?.content || ""
FirstChoiceContent(response) ==
  IF response.choices = <<>> THEN <<>>
  ELSE IF ~Has(response.choices[1], "message") THEN <<>>
  ELSE IF ~Has(response.choices[1].message, "content") THEN <<>>
  ELSE response.choices[1].message.content

\* ------------------------------------------------- outcomes of one call
Thrown(prefix, message, calls) ==
  [threw |-> TRUE, error |-> [prefix |-> prefix, message |-> message],
   calls |-> calls]
Returned(value, calls) == [threw |-> FALSE, value |-> value, calls |-> calls]

Timestamps == {1700000000}

\* a URL is a base and the path appended to it
Url(base, path) == [base |-> base, path |-> path]

\* ------------------------------------------------------- VerifiableEigenAI
EigenConfigs == {[apiKey |-> "eigen-key"],
                 [apiKey |-> "eigen-key", endpoint |-> "https://eigen.proxy/v1"]}

\* constructor: this.endpoint = config.endpoint || EIGENAI_ENDPOINT
EigenEndpoint(config) == OrStr(config, "endpoint", EIGENAI_ENDPOINT)

\* a seed chosen with || in place of ??: a supplied 0 is replaced
EigenSeed_Falsy(options, g) == OrNum(options, "seed", g)

\* const seed = options.seed ?? this.generateSeed(); g is what generateSeed drew
EigenSeed(options, g) == Nullish(options, "seed", g)

\* a message builder that takes any prompt that is present, the empty one
\* included
EigenMessages_AnyPrompt(options) ==
  LET sys == IF TruthyStr(options, "system")
             THEN <<Message("system", options.system)>> ELSE <<>>
  IN  IF Has(options, "messages")
      THEN [ok |-> TRUE, messages |-> sys \o options.messages]
      ELSE IF Has(options, "prompt")
      THEN [ok |-> TRUE,
            messages |-> sys \o <<Message("user", options.prompt)>>]
      ELSE [ok |-> FALSE, messages |-> sys]

\* the messages array generate builds; ok is FALSE where generate throws
EigenMessages(options) ==
  LET sys == IF TruthyStr(options, "system")
             THEN <<Message("system", options.system)>> ELSE <<>>
  IN  IF Has(options, "messages")
      THEN [ok |-> TRUE, messages |-> sys \o options.messages]
      ELSE IF TruthyStr(options, "prompt")
      THEN [ok |-> TRUE,
            messages |-> sys \o <<Message("user", options.prompt)>>]
      ELSE [ok |-> FALSE, messages |-> sys]

\* the local constants of generate: model, maxTokens, temperature, seed
EigenLocals(options, g) ==
  [model |-> OrStr(options, "model", DEFAULT_MODEL),
   maxTokens |-> OrNum(options, "maxTokens", DefaultMaxTokens),
   temperature |-> Nullish(options, "temperature", 0),
   seed |-> EigenSeed(options, g),
   messages |-> EigenMessages(options).messages]

\* the argument of chat.completions.create in generate
EigenGenerateRequest(loc, options) ==
  [model |-> loc.model,
   messages |-> loc.messages,
   max_tokens |-> loc.maxTokens,
   temperature |-> loc.temperature,
   seed |-> loc.seed]
  @@ (IF Has(options, "stop") THEN [stop |-> options.stop] ELSE Empty)

\* an attestation that records the default model, whatever model was used
EigenAttestation_DefaultModel(loc, response) ==
  [seed |-> loc.seed,
   model |-> DEFAULT_MODEL,
   requestParams |-> [messages |-> loc.messages,
                      temperature |-> loc.temperature,
                      maxTokens |-> loc.maxTokens]]
  @@ (IF Has(response, "id") THEN [requestId |-> response.id] ELSE Empty)

\* the attestation generate records
EigenAttestation(loc, response) ==
  [seed |-> loc.seed,
   model |-> loc.model,
   requestParams |-> [messages |-> loc.messages,
                      temperature |-> loc.temperature,
                      maxTokens |-> loc.maxTokens]]
  @@ (IF Has(response, "id") THEN [requestId |-> response.id] ELSE Empty)

VerifiableEigenAI_generate(config, options, g, now, prov) ==
  LET built == EigenMessages(options)
      loc   == EigenLocals(options, g)
      req   == EigenGenerateRequest(loc, options)
      reply == ChatCompletionsCreate(prov, req)
  IN  IF ~built.ok
      THEN Thrown("", "Either 'messages' or 'prompt' must be provided", <<>>)
      ELSE IF reply.raised
      THEN Thrown("EigenAI generation failed: ", reply.message, <<req>>)
      ELSE Returned([text |-> FirstChoiceContent(reply.response),
                     attestation |-> EigenAttestation(loc, reply.response),
                     timestamp |-> now,
                     model |-> loc.model,
                     provider |-> "eigenai",
                     rawResponse |-> reply.response], <<req>>)

\* the attestation can be walked as verify walks it (no TypeError)
AttestationShaped(a) ==
  /\ Has(a, "requestParams")
  /\ Has(a.requestParams, "messages")
  /\ Has(a, "model") /\ Has(a, "seed")

\* the argument of chat.completions.create in verify / verifySerializedProof
EigenVerifyRequest(attestation) ==
  [model |-> attestation.model,
   messages |-> attestation.requestParams.messages,
   max_tokens |-> OrNum(attestation.requestParams, "maxTokens",
                        DefaultMaxTokens),
   temperature |-> Nullish(attestation.requestParams, "temperature", 0),
   seed |-> attestation.seed]

LowerToken(t) ==
  CASE t = "O" -> "o" [] t = "K" -> "k" [] t = "Q" -> "q" [] OTHER -> t
Lower(text) == [i \in 1..Len(text) |-> LowerToken(text[i])]

\* a comparison that folds case before comparing
OutputMatches_IgnoreCase(reExecutedOutput, text) ==
  Lower(reExecutedOutput) = Lower(text)

\* reExecutedOutput === text
OutputMatches(reExecutedOutput, text) == reExecutedOutput = text

\* the returned outcome of the try block
EigenMatchOutcome(config, reExecutedOutput, text) ==
  LET outputMatches == OutputMatches(reExecutedOutput, text)
  IN  [isValid |-> outputMatches,
       outputMatches |-> outputMatches,
       reExecutedOutput |-> reExecutedOutput]
      @@ (IF outputMatches
          THEN [verifiedEndpoint |-> Url(EigenEndpoint(config), "")]
          ELSE Empty)

\* a catch block that reports only isValid and error
EigenErrorOutcome_Bare(message) == [isValid |-> FALSE, error |-> message]

\* the outcome of the catch block
EigenErrorOutcome(message) ==
  [isValid |-> FALSE, outputMatches |-> FALSE, error |-> message]

\* the body shared by verify and verifySerializedProof once the attestation
\* is at hand
EigenReExecute(config, attestation, text, prov) ==
  IF ~AttestationShaped(attestation)
  THEN Returned(EigenErrorOutcome("TypeError"), <<>>)
  ELSE LET req   == EigenVerifyRequest(attestation)
           reply == ChatCompletionsCreate(prov, req)
       IN  IF reply.raised
           THEN Returned(EigenErrorOutcome(reply.message), <<req>>)
           ELSE Returned(EigenMatchOutcome(config,
                           FirstChoiceContent(reply.response), text), <<req>>)

VerifiableEigenAI_verify(config, result, prov) ==
  EigenReExecute(config, Get(result, "attestation"), result.text, prov)

\* a verification that first compares the top-level model with the
\* attestation's
VerifiableEigenAI_verifySerializedProof_ByModel(config, serialized, prov) ==
  IF ~Has(serialized, "attestationJson") \/ ~IsJson(serialized.attestationJson)
  THEN Returned(EigenErrorOutcome("SyntaxError"), <<>>)
  ELSE LET attestation == JsonParse(serialized.attestationJson)
       IN  IF /\ Has(attestation, "model")
              /\ (\/ ~Has(serialized, "model")
                  \/ serialized.model # attestation.model)
           THEN Returned(EigenErrorOutcome("Model mismatch"), <<>>)
           ELSE EigenReExecute(config, attestation, serialized.text, prov)

VerifiableEigenAI_verifySerializedProof(config, serialized, prov) ==
  IF ~Has(serialized, "attestationJson") \/ ~IsJson(serialized.attestationJson)
  THEN Returned(EigenErrorOutcome("SyntaxError"), <<>>)
  ELSE EigenReExecute(config, JsonParse(serialized.attestationJson),
                      serialized.text, prov)

\* a serializer that writes only the request parameters of the attestation
VerifiableEigenAI_serializeResult_ParamsOnly(result) ==
  [text |-> result.text,
   timestamp |-> result.timestamp,
   model |-> result.model,
   provider |-> "eigenai"]
  @@ (IF Has(result, "attestation")
      THEN [attestationJson |->
              JsonStringify(result.attestation.requestParams)]
      ELSE Empty)

VerifiableEigenAI_serializeResult(result) ==
  [text |-> result.text,
   timestamp |-> result.timestamp,
   model |-> result.model,
   provider |-> "eigenai"]
  @@ (IF Has(result, "attestation")
      THEN [attestationJson |-> JsonStringify(result.attestation)]
      ELSE Empty)

\* -------------------------------------------------------- VerifiableClaude
ClaudeConfigs ==
  {[apiKey |-> "sk-ant-key", reclaimAppId |-> "app-id",
    reclaimAppSecret |-> "app-secret"],
   [apiKey |-> "sk-ant-key", reclaimAppId |-> "app-id",
    reclaimAppSecret |-> "app-secret",
    endpoint |-> "https://claude.proxy/v1"]}

\* constructor: this.endpoint = config.endpoint || ANTHROPIC_API_ENDPOINT
ClaudeEndpoint(config) == OrStr(config, "endpoint", ANTHROPIC_API_ENDPOINT)

OptClaudeModel == {Empty, [model |-> "claude-3-5-haiku-20241022"]}
OptStopSequences == {Empty, [stopSequences |-> <<>>],
                     [stopSequences |-> <<"K">>]}
OptClaudeTemperature == {Empty, [temperature |-> 0]}
OptClaudeMaxTokens == {Empty, [maxTokens |-> 0], [maxTokens |-> 100]}

ClaudeGenerateOptions ==
  {o \in {i @@ s @@ k @@ t @@ p @@ m :
            i \in OptInput, s \in OptSystem, k \in OptClaudeMaxTokens,
            t \in OptClaudeTemperature, p \in OptStopSequences,
            m \in OptClaudeModel} : Tuned(o)}

\* the messages array generate builds; ok is FALSE where generate throws
ClaudeMessages(options) ==
  IF Has(options, "messages")
  THEN [ok |-> TRUE, messages |-> options.messages]
  ELSE IF TruthyStr(options, "prompt")
  THEN [ok |-> TRUE, messages |-> <<Message("user", options.prompt)>>]
  ELSE [ok |-> FALSE, messages |-> <<>>]

\* the request body generate builds
ClaudeBody(options) ==
  [model |-> OrStr(options, "model", CLAUDE_DEFAULT_MODEL),
   max_tokens |-> OrNum(options, "maxTokens", DefaultMaxTokens),
   messages |-> ClaudeMessages(options).messages,
   temperature |-> Nullish(options, "temperature", 1)]
  @@ (IF TruthyStr(options, "system") THEN [system |-> options.system]
      ELSE Empty)
  @@ (IF Has(options, "stopSequences") /\ options.stopSequences # <<>>
      THEN [stop_sequences |-> options.stopSequences] ELSE Empty)

ResponseRegex == "(?<response>\\{[\\s\\S]*?\"id\":\\s*\"msg_[^\"]*\"[\\s\\S]*\\})"

\* a zkFetch call that sends the key among the public headers
ZkFetchCall_KeyInPublicHeaders(config, options) ==
  [url |-> Url(ClaudeEndpoint(config), "/messages"),
   options |-> [method |-> "POST",
                headers |-> [ContentType |-> "application/json",
                             xApiKey |-> config.apiKey],
                body |-> JsonStringify(ClaudeBody(options))],
   secretOptions |-> [headers |-> [anthropicVersion |-> ANTHROPIC_VERSION],
                      responseMatches |-> <<[type |-> "regex",
                                             value |-> ResponseRegex]>>]]

\* the three arguments of reclaimClient.zkFetch
ZkFetchCall(config, options) ==
  [url |-> Url(ClaudeEndpoint(config), "/messages"),
   options |-> [method |-> "POST",
                headers |-> [ContentType |-> "application/json"],
                body |-> JsonStringify(ClaudeBody(options))],
   secretOptions |-> [headers |-> [anthropicVersion |-> ANTHROPIC_VERSION,
                                   xApiKey |-> config.apiKey],
                      responseMatches |-> <<[type |-> "regex",
                                             value |-> ResponseRegex]>>]]

\* What the provider may answer to the witnessed request, and what the
\* witnessing collaborator may hand back for it.
ClaudeTexts == {<<"Paris">>, <<>>}
ResponseBodies ==
  {[id |-> "msg_1", content |-> <<[type |-> "text", text |-> t]>>] :
      t \in ClaudeTexts}
  \cup {[id |-> "msg_1", content |-> <<[type |-> "tool_use"]>>],
        [id |-> "msg_1"]}

Signature(signer, claimData) == [by |-> signer, over |-> claimData]

WitnessedProof(call, extracted) ==
  LET claimData == [provider |-> "http",
                    parameters |-> [url |-> call.url,
                                    method |-> call.options.method,
                                    body |-> call.options.body,
                                    responseMatches |->
                                       call.secretOptions.responseMatches],
                    context |-> [extractedParameters |-> extracted]]
  IN  [identifier |-> "0xclaim",
       claimData |-> claimData,
       signatures |-> <<Signature("witness", claimData)>>,
       witnesses |-> <<[id |-> "0xwitness", url |-> "wss://attestor"]>>,
       extractedParameterValues |-> extracted]

ZkFetchReplies(call) ==
  {[kind |-> "raise", message |-> "zkFetch failed"], [kind |-> "null"]}
  \cup {[kind |-> "proof", proof |-> WitnessedProof(call, x)] :
          x \in {Empty, [response |-> NotJson]}
                \cup {[response |-> JsonStringify(b)] : b \in ResponseBodies}}

\* a text extraction that puts a placeholder where the response has no text
ClaudeText_Placeholder(response) ==
  IF ~Has(response, "content") THEN <<"?">>
  ELSE LET texts == {i \in 1..Len(response.content) :
                       response.content[i].type = "text"}
       IN  IF texts = {} THEN <<"?">>
           ELSE LET first == CHOOSE i \in texts : \A j \in texts : i <= j
                IN  IF Has(response.content[first], "text")
                    THEN response.content[first].text ELSE <<"?">>

\* text of the first content item of type "text", or ""
ClaudeText(response) ==
  IF ~Has(response, "content") THEN <<>>
  ELSE LET texts == {i \in 1..Len(response.content) :
                       response.content[i].type = "text"}
       IN  IF texts = {} THEN <<>>
           ELSE LET first == CHOOSE i \in texts : \A j \in texts : i <= j
                IN  IF Has(response.content[first], "text")
                    THEN response.content[first].text ELSE <<>>

\* a generate that hands back what it has when the proof carries no
\* response slice
VerifiableClaude_generate_Partial(config, options, reply, now) ==
  LET call == ZkFetchCall(config, options)
      body == ClaudeBody(options)
  IN  IF ~ClaudeMessages(options).ok
      THEN Thrown("", "Either 'messages' or 'prompt' must be provided", <<>>)
      ELSE IF reply.kind = "raise"
      THEN Thrown("Verifiable generation failed: ", reply.message, <<call>>)
      ELSE IF reply.kind = "null"
      THEN Thrown("Verifiable generation failed: ",
                  "Failed to generate proof - no proof returned", <<call>>)
      ELSE IF ~Has(reply.proof.extractedParameterValues, "response")
      THEN Returned([text |-> <<>>,
                     proof |-> reply.proof,
                     timestamp |-> now,
                     model |-> body.model,
                     provider |-> "reclaim"], <<call>>)
      ELSE IF ~IsJson(reply.proof.extractedParameterValues.response)
      THEN Thrown("Verifiable generation failed: ", "SyntaxError", <<call>>)
      ELSE LET response ==
                 JsonParse(reply.proof.extractedParameterValues.response)
           IN  Returned([text |-> ClaudeText(response),
                         proof |-> reply.proof,
                         timestamp |-> now,
                         model |-> body.model,
                         provider |-> "reclaim",
                         rawResponse |-> response], <<call>>)

\* a generate that reports a missing slice and an unparseable slice alike
VerifiableClaude_generate_OneMessage(config, options, reply, now) ==
  LET call == ZkFetchCall(config, options)
      body == ClaudeBody(options)
  IN  IF ~ClaudeMessages(options).ok
      THEN Thrown("", "Either 'messages' or 'prompt' must be provided", <<>>)
      ELSE IF reply.kind = "raise"
      THEN Thrown("Verifiable generation failed: ", reply.message, <<call>>)
      ELSE IF reply.kind = "null"
      THEN Thrown("Verifiable generation failed: ",
                  "Failed to generate proof - no proof returned", <<call>>)
      ELSE IF \/ ~Has(reply.proof.extractedParameterValues, "response")
              \/ ~IsJson(reply.proof.extractedParameterValues.response)
      THEN Thrown("Verifiable generation failed: ",
                  "Failed to extract response from proof", <<call>>)
      ELSE LET response ==
                 JsonParse(reply.proof.extractedParameterValues.response)
           IN  Returned([text |-> ClaudeText(response),
                         proof |-> reply.proof,
                         timestamp |-> now,
                         model |-> body.model,
                         provider |-> "reclaim",
                         rawResponse |-> response], <<call>>)

VerifiableClaude_generate(config, options, reply, now) ==
  LET call == ZkFetchCall(config, options)
      body == ClaudeBody(options)
  IN  IF ~ClaudeMessages(options).ok
      THEN Thrown("", "Either 'messages' or 'prompt' must be provided", <<>>)
      ELSE IF reply.kind = "raise"
      THEN Thrown("Verifiable generation failed: ", reply.message, <<call>>)
      ELSE IF reply.kind = "null"
      THEN Thrown("Verifiable generation failed: ",
                  "Failed to generate proof - no proof returned", <<call>>)
      ELSE IF ~Has(reply.proof.extractedParameterValues, "response")
      THEN Thrown("Verifiable generation failed: ",
                  "Failed to extract response from proof", <<call>>)
      ELSE IF ~IsJson(reply.proof.extractedParameterValues.response)
      THEN Thrown("Verifiable generation failed: ", "SyntaxError", <<call>>)
      ELSE LET response ==
                 JsonParse(reply.proof.extractedParameterValues.response)
           IN  Returned([text |-> ClaudeText(response),
                         proof |-> reply.proof,
                         timestamp |-> now,
                         model |-> body.model,
                         provider |-> "reclaim",
                         rawResponse |-> response], <<call>>)

\* verifyProof of @reclaimprotocol/js-sdk: true iff the proof carries
\* signatures and each is the witness's signature over the claim data; a
\* value that is no proof makes it raise ("strict") or answer false
\* ("lenient"); "down" is the collaborator failing.
AttestorMoods == {"strict", "lenient", "down"}
ProofShaped(proof) == Has(proof, "signatures") /\ Has(proof, "claimData")
\* a verifier that checks what each signature is over and not who signed
verifyProof_AnySigner(proof, mood) ==
  IF mood = "down" THEN [raised |-> TRUE, message |-> "attestor unreachable"]
  ELSE IF ~ProofShaped(proof)
  THEN IF mood = "strict" THEN [raised |-> TRUE, message |-> "TypeError"]
       ELSE [raised |-> FALSE, isValid |-> FALSE]
  ELSE IF proof.signatures = <<>>
  THEN [raised |-> TRUE, message |-> "No signatures"]
  ELSE [raised |-> FALSE,
        isValid |-> \A i \in 1..Len(proof.signatures) :
                      proof.signatures[i].over = proof.claimData]

verifyProof(proof, mood) ==
  IF mood = "down" THEN [raised |-> TRUE, message |-> "attestor unreachable"]
  ELSE IF ~ProofShaped(proof)
  THEN IF mood = "strict" THEN [raised |-> TRUE, message |-> "TypeError"]
       ELSE [raised |-> FALSE, isValid |-> FALSE]
  ELSE IF proof.signatures = <<>>
  THEN [raised |-> TRUE, message |-> "No signatures"]
  ELSE [raised |-> FALSE,
        isValid |-> \A i \in 1..Len(proof.signatures) :
                      proof.signatures[i] =
                        Signature("witness", proof.claimData)]

ClaudeErrorOutcome(message) == [isValid |-> FALSE, error |-> message]

\* the endpoint verify reports: `${this.endpoint}/messages`
ClaudeVerifiedEndpoint(config) == Url(ClaudeEndpoint(config), "/messages")
\* the endpoint the static verifySerializedProof reports
StaticVerifiedEndpoint == Url(ANTHROPIC_API_ENDPOINT, "/messages")

\* an outcome that names the endpoint whatever the verdict
ClaudeOutcome_AlwaysEndpoint(isValid, endpoint) ==
  [isValid |-> isValid, verifiedEndpoint |-> endpoint]

\* the outcome the try block returns
ClaudeOutcome(isValid, endpoint) ==
  [isValid |-> isValid]
  @@ (IF isValid THEN [verifiedEndpoint |-> endpoint] ELSE Empty)

\* verify without its try/catch: what the collaborator raises propagates
VerifiableClaude_verify_Uncaught(config, result, mood) ==
  LET proof   == Get(result, "proof")
      verdict == verifyProof(proof, mood)
  IN  IF verdict.raised THEN Thrown("", verdict.message, <<proof>>)
      ELSE Returned(ClaudeOutcome(verdict.isValid,
                                  ClaudeVerifiedEndpoint(config)), <<proof>>)

\* a verify that also re-derives the text from the proof and compares it
VerifiableClaude_verify_TextChecked(config, result, mood) ==
  LET proof   == Get(result, "proof")
      verdict == verifyProof(proof, mood)
      same    == /\ Has(result, "text")
                 /\ Has(proof.extractedParameterValues, "response")
                 /\ IsJson(proof.extractedParameterValues.response)
                 /\ result.text = ClaudeText(JsonParse(
                                     proof.extractedParameterValues.response))
  IN  IF verdict.raised
      THEN Returned(ClaudeErrorOutcome(verdict.message), <<proof>>)
      ELSE Returned(ClaudeOutcome(verdict.isValid /\ same,
                                  ClaudeVerifiedEndpoint(config)), <<proof>>)

VerifiableClaude_verify(config, result, mood) ==
  LET proof   == Get(result, "proof")
      verdict == verifyProof(proof, mood)
  IN  IF verdict.raised
      THEN Returned(ClaudeErrorOutcome(verdict.message), <<proof>>)
      ELSE Returned(ClaudeOutcome(verdict.isValid,
                                  ClaudeVerifiedEndpoint(config)), <<proof>>)

\* a static verification that also reads the provider tag beside the proof
VerifiableClaude_verifySerializedProof_Tagged(serialized, mood) ==
  IF ~Has(serialized, "proofJson") \/ ~IsJson(serialized.proofJson)
  THEN Returned(ClaudeErrorOutcome("SyntaxError"), <<>>)
  ELSE IF ~Has(serialized, "provider") \/ serialized.provider # "reclaim"
  THEN Returned(ClaudeErrorOutcome("Provider mismatch"), <<>>)
  ELSE LET proof   == JsonParse(serialized.proofJson)
           verdict == verifyProof(proof, mood)
       IN  IF verdict.raised
           THEN Returned(ClaudeErrorOutcome(verdict.message), <<proof>>)
           ELSE Returned(ClaudeOutcome(verdict.isValid,
                                       StaticVerifiedEndpoint), <<proof>>)

VerifiableClaude_verifySerializedProof(serialized, mood) ==
  IF ~Has(serialized, "proofJson") \/ ~IsJson(serialized.proofJson)
  THEN Returned(ClaudeErrorOutcome("SyntaxError"), <<>>)
  ELSE LET proof   == JsonParse(serialized.proofJson)
           verdict == verifyProof(proof, mood)
       IN  IF verdict.raised
           THEN Returned(ClaudeErrorOutcome(verdict.message), <<proof>>)
           ELSE Returned(ClaudeOutcome(verdict.isValid,
                                       StaticVerifiedEndpoint), <<proof>>)

VerifiableClaude_serializeResult(result) ==
  [text |-> result.text,
   timestamp |-> result.timestamp,
   model |-> result.model,
   provider |-> "reclaim"]
  @@ (IF Has(result, "proof")
      THEN [proofJson |-> JsonStringify(result.proof)] ELSE Empty)

\* ---------------------------------------------------------- state machine
VARIABLES
  claude,    \* the VerifiableClaudeConfig the Claude client was built with
  eigen,     \* the EigenAIConfig the EigenAI client was built with
  held,      \* the result object the caller holds (NoResult if none)
  origin,    \* how held was generated: client, options, pristine result
  ser,       \* the serialized proof in circulation (NoSerialized if none)
  last,      \* the most recent call: operation, environment, what it returned
  flight     \* the calls in flight: per slot, the frame of an async call

vars == <<claude, eigen, held, origin, ser, last, flight>>

NoResult == [provider |-> "none"]
Slots == 1..MaxCalls
IdleFrame == [pc |-> "idle"]
NoSerialized == [provider |-> "none"]
NoOrigin == [by |-> "none"]
ForgedText == <<"Rome">>

\* the deployments considered: both clients on their default endpoint, or
\* both behind a configured endpoint
Deployments ==
  {d \in ClaudeConfigs \X EigenConfigs :
     Has(d[1], "endpoint") <=> Has(d[2], "endpoint")}

Init ==
  /\ \E d \in Deployments : claude = d[1] /\ eigen = d[2]
  /\ held = NoResult
  /\ origin = NoOrigin
  /\ ser = NoSerialized
  /\ last = [op |-> "init"]
  /\ flight = [i \in Slots |-> IdleFrame]

\* nothing is held and no call is awaiting its caller
Idle == held = NoResult /\ last.op \in {"init", "discard"}

\* what a generate call leaves with the caller
AfterGenerate(op, options, env, r, more) ==
  /\ held' = IF r.threw THEN NoResult ELSE r.value
  /\ origin' = IF r.threw THEN NoOrigin
               ELSE [by |-> op, options |-> options, result |-> r.value]
                    @@ more
  /\ ser' = NoSerialized
  /\ last' = [op |-> op, options |-> options, env |-> env,
              threw |-> r.threw, calls |-> r.calls]
             @@ (IF r.threw THEN [error |-> r.error] ELSE Empty)

\* the collaborator behaviour a call met: none where it made no call
Unasked == "unasked"
Consulted(env, r) == IF r.calls = <<>> THEN Unasked ELSE env

\* a client that keeps the outcome of its previous verification and
\* answers a repeated call from it, without asking again
AfterVerify_Cached(op, env, r) ==
  /\ last' = IF last.op = op
             THEN [last EXCEPT !.env = Unasked, !.calls = <<>>,
                               !.again = TRUE]
             ELSE [op |-> op, env |-> Consulted(env, r), threw |-> r.threw,
                   calls |-> r.calls, again |-> FALSE]
                  @@ (IF r.threw THEN [error |-> r.error]
                      ELSE [out |-> r.value])
  /\ UNCHANGED <<held, origin, ser>>

\* what a verify call leaves with the caller; again tells that the call
\* before it was the same operation on the same input
AfterVerify(op, env, r) ==
  /\ last' = [op |-> op, env |-> Consulted(env, r), threw |-> r.threw,
              calls |-> r.calls, again |-> (last.op = op)]
             @@ (IF r.threw THEN [error |-> r.error] ELSE [out |-> r.value])
  /\ UNCHANGED <<held, origin, ser>>

ClaudeGenerate ==
  /\ Idle
  /\ \E options \in ClaudeGenerateOptions, now \in Timestamps :
       \E reply \in ZkFetchReplies(ZkFetchCall(claude, options)) :
         AfterGenerate("claude.generate", options, reply,
                       VerifiableClaude_generate(claude, options, reply, now),
                       Empty)
  /\ UNCHANGED <<flight, claude, eigen>>

ClaudeVerify ==
  /\ held # NoResult
  /\ \E mood \in AttestorMoods :
       AfterVerify("claude.verify", mood,
                   VerifiableClaude_verify(claude, held, mood))
  /\ UNCHANGED <<flight, claude, eigen>>

ClaudeSerialize ==
  /\ held # NoResult
  /\ ser' = VerifiableClaude_serializeResult(held)
  /\ last' = [op |-> "claude.serializeResult"]
  /\ UNCHANGED <<flight, claude, eigen, held, origin>>

ClaudeVerifySerialized ==
  /\ ser # NoSerialized
  /\ \E mood \in AttestorMoods :
       AfterVerify("claude.verifySerializedProof", mood,
                   VerifiableClaude_verifySerializedProof(ser, mood))
  /\ UNCHANGED <<flight, claude, eigen>>

EigenGenerate ==
  /\ Idle
  /\ \E options \in EigenAIGenerateOptions, now \in Timestamps,
        g \in SeedSamples, prov \in ProviderStates :
       AfterGenerate("eigen.generate", options, prov,
                     VerifiableEigenAI_generate(eigen, options, g, now, prov),
                     [provider |-> prov,
                      request |-> EigenGenerateRequest(
                                    EigenLocals(options, g), options)])
  /\ UNCHANGED <<flight, claude, eigen>>

EigenVerify ==
  /\ held # NoResult
  /\ \E prov \in ProviderStates :
       AfterVerify("eigen.verify", prov,
                   VerifiableEigenAI_verify(eigen, held, prov))
  /\ UNCHANGED <<flight, claude, eigen>>

EigenSerialize ==
  /\ held # NoResult
  /\ ser' = VerifiableEigenAI_serializeResult(held)
  /\ last' = [op |-> "eigen.serializeResult"]
  /\ UNCHANGED <<flight, claude, eigen, held, origin>>

EigenVerifySerialized ==
  /\ ser # NoSerialized
  /\ \E prov \in ProviderStates :
       AfterVerify("eigen.verifySerializedProof", prov,
                   VerifiableEigenAI_verifySerializedProof(eigen, ser, prov))
  /\ UNCHANGED <<flight, claude, eigen>>

\* chat(prompt, options): the options generate is called with,
\* { prompt, ...options }: a key of options replaces the one before it
ChatGenerateOptions(prompt, options) == options @@ [prompt |-> prompt]

\* the arguments callers pass to chat
ChatPrompts == {"hi", ""}
ChatOptionArgs ==
  {Empty, [prompt |-> "bye"], [messages |-> <<Message("user", "bye")>>],
   [system |-> "be brief"]}

\* what a chat call leaves with the caller: what its generate leaves
AfterChat(op, by, prompt, given, env, r, more) ==
  LET options == ChatGenerateOptions(prompt, given)
  IN  /\ held' = IF r.threw THEN NoResult ELSE r.value
      /\ origin' = IF r.threw THEN NoOrigin
                   ELSE [by |-> by, options |-> options, result |-> r.value]
                        @@ more
      /\ ser' = NoSerialized
      /\ last' = [op |-> op, prompt |-> prompt, given |-> given,
                  options |-> options, env |-> env,
                  threw |-> r.threw, calls |-> r.calls]
                 @@ (IF r.threw THEN [error |-> r.error] ELSE Empty)

ClaudeChat ==
  /\ Idle
  /\ \E prompt \in ChatPrompts, given \in ChatOptionArgs, now \in Timestamps :
       LET options == ChatGenerateOptions(prompt, given)
       IN  \E reply \in ZkFetchReplies(ZkFetchCall(claude, options)) :
             AfterChat("claude.chat", "claude.generate", prompt, given, reply,
                       VerifiableClaude_generate(claude, options, reply, now),
                       Empty)
  /\ UNCHANGED <<flight, claude, eigen>>

EigenChat ==
  /\ Idle
  /\ \E prompt \in ChatPrompts, given \in ChatOptionArgs, now \in Timestamps,
        g \in SeedSamples, prov \in ProviderStates :
       LET options == ChatGenerateOptions(prompt, given)
       IN  AfterChat("eigen.chat", "eigen.generate", prompt, given, prov,
                     VerifiableEigenAI_generate(eigen, options, g, now, prov),
                     [provider |-> prov,
                      request |-> EigenGenerateRequest(
                                    EigenLocals(options, g), options)])
  /\ UNCHANGED <<flight, claude, eigen>>

\* the caller lets go of the result and of the serialized proof; the next
\* generate starts from nothing, as every generate does
Discard ==
  /\ ~Idle
  /\ held' = NoResult
  /\ origin' = NoOrigin
  /\ ser' = NoSerialized
  /\ last' = [op |-> "discard"]
  /\ UNCHANGED <<flight, claude, eigen>>

\* the in-memory result goes away once it has been serialized; the
\* serialized proof stays in circulation
DropResult ==
  /\ held # NoResult
  /\ ser # NoSerialized
  /\ held' = NoResult
  /\ last' = [op |-> "drop.result"]
  /\ UNCHANGED <<flight, claude, eigen, origin, ser>>

\* what proof.signatures may be rewritten to: the signatures removed, or
\* replaced by one that is not the witness's
TamperedSignatures(proof) ==
  {<<>>, <<Signature("forger", proof.claimData)>>}

\* whoever holds the result object rewrites proof.signatures; rewriting
\* is explored before serialization, what is serialized afterwards carries it
TamperSignatures ==
  /\ Has(held, "proof")
  /\ held.proof = origin.result.proof
  /\ ser = NoSerialized
  /\ \E sigs \in TamperedSignatures(held.proof) :
       held' = [held EXCEPT !.proof.signatures = sigs]
  /\ last' = [op |-> "tamper.signatures"]
  /\ UNCHANGED <<flight, claude, eigen, origin, ser>>

\* whoever holds the result object rewrites its text and leaves the rest;
\* explored before serialization as well
TamperText ==
  /\ held # NoResult
  /\ held.text # ForgedText
  /\ ser = NoSerialized
  /\ held' = [held EXCEPT !.text = ForgedText]
  /\ last' = [op |-> "tamper.text"]
  /\ UNCHANGED <<flight, claude, eigen, origin, ser>>

\* whoever passes the serialized proof on relabels its provider tag
RetagSerialized ==
  /\ ser # NoSerialized
  /\ ser' = [ser EXCEPT !.provider =
               IF ser.provider = "reclaim" THEN "eigenai" ELSE "reclaim"]
  /\ last' = [op |-> "tamper.provider"]
  /\ UNCHANGED <<flight, claude, eigen, held, origin>>

\* whoever receives a serialized EigenAI proof, the result object being
\* gone, rewrites its top-level model and timestamp and leaves attestation
\* and text alone
ForgedModel == "gpt-forged"
RelabelSerialized ==
  /\ ser # NoSerialized
  /\ held = NoResult
  /\ Has(ser, "attestationJson")
  /\ ser.model # ForgedModel
  /\ ser' = [ser EXCEPT !.model = ForgedModel, !.timestamp = 0]
  /\ last' = [op |-> "tamper.model"]
  /\ UNCHANGED <<flight, claude, eigen, held, origin>>

\* the serialized proof is damaged in storage or transit: its payload is
\* no longer JSON
CorruptSerialized ==
  /\ ser # NoSerialized
  /\ \E f \in {"proofJson", "attestationJson"} :
       /\ Has(ser, f)
       /\ IsJson(ser[f])
       /\ ser' = [ser EXCEPT ![f] = NotJson]
  /\ last' = [op |-> "tamper.payload"]
  /\ UNCHANGED <<flight, claude, eigen, held, origin>>

Next ==
  \/ ClaudeGenerate
  \/ ClaudeVerify
  \/ ClaudeSerialize
  \/ ClaudeVerifySerialized
  \/ EigenGenerate
  \/ EigenVerify
  \/ EigenSerialize
  \/ EigenVerifySerialized
  \/ ClaudeChat
  \/ EigenChat
  \/ Discard
  \/ DropResult
  \/ TamperSignatures
  \/ TamperText
  \/ RetagSerialized
  \/ RelabelSerialized
  \/ CorruptSerialized

Spec == Init /\ [][Next]_vars

\* ------------------------------------------------- calls in flight at once
\* An async method runs to its await, is suspended while the collaborator
\* works, and resumes with the answer.  A frame holds what the call keeps
\* across the await: its arguments and the locals computed before it.

\* the arguments the concurrent callers pass
ConcSeeds == 0..MaxSeed
ConcEigenOptions ==
  {[prompt |-> "hi"], [prompt |-> "hi", stop |-> <<"K">>], [prompt |-> ""]}
ConcClaudeOptions == {[prompt |-> "hi"], [prompt |-> "hi", maxTokens |-> 100]}
ConcEigenResults ==
  {VerifiableEigenAI_generate(eigen, [prompt |-> "hi"], g, now, "v1").value :
     g \in ConcSeeds, now \in Timestamps}
ConcClaudeResults ==
  {VerifiableClaude_generate(
     claude, o,
     [kind |-> "proof",
      proof |-> WitnessedProof(
                  ZkFetchCall(claude, o),
                  [response |-> JsonStringify(
                     [id |-> "msg_1",
                      content |-> <<[type |-> "text",
                                     text |-> <<"Paris">>]>>])])],
     now).value : o \in ConcClaudeOptions, now \in Timestamps}

\* generate up to `await this.client.chat.completions.create(...)`
EigenGenerateBegin(options, g) ==
  IF ~EigenMessages(options).ok
  THEN [pc |-> "done",
        result |-> Thrown("", "Either 'messages' or 'prompt' must be provided",
                          <<>>)]
  ELSE LET loc == EigenLocals(options, g)
       IN  [pc |-> "awaiting", loc |-> loc,
            request |-> EigenGenerateRequest(loc, options)]

\* generate from the provider's answer on
EigenGenerateResume(frame, prov, now) ==
  LET reply == ChatCompletionsCreate(prov, frame.request)
  IN  IF reply.raised
      THEN Thrown("EigenAI generation failed: ", reply.message,
                  <<frame.request>>)
      ELSE Returned([text |-> FirstChoiceContent(reply.response),
                     attestation |-> EigenAttestation(frame.loc,
                                                      reply.response),
                     timestamp |-> now,
                     model |-> frame.loc.model,
                     provider |-> "eigenai",
                     rawResponse |-> reply.response], <<frame.request>>)

\* verify up to the await of the re-execution
EigenVerifyBegin(result) ==
  IF ~AttestationShaped(Get(result, "attestation"))
  THEN [pc |-> "done", result |-> Returned(EigenErrorOutcome("TypeError"),
                                           <<>>)]
  ELSE [pc |-> "awaiting", request |-> EigenVerifyRequest(result.attestation)]

\* verify from the provider's answer on; result.text is read here
EigenVerifyResume(config, frame, prov) ==
  LET reply == ChatCompletionsCreate(prov, frame.request)
  IN  IF reply.raised
      THEN Returned(EigenErrorOutcome(reply.message), <<frame.request>>)
      ELSE Returned(EigenMatchOutcome(config,
                                      FirstChoiceContent(reply.response),
                                      frame.input.text), <<frame.request>>)

\* generate up to `await this.reclaimClient.zkFetch(...)`
ClaudeGenerateBegin(config, options) ==
  IF ~ClaudeMessages(options).ok
  THEN [pc |-> "done",
        result |-> Thrown("", "Either 'messages' or 'prompt' must be provided",
                          <<>>)]
  ELSE [pc |-> "awaiting", call |-> ZkFetchCall(config, options),
        model |-> ClaudeBody(options).model]

\* generate from the collaborator's reply on
ClaudeGenerateResume(frame, reply, now) ==
  LET failed(message) ==
        Thrown("Verifiable generation failed: ", message, <<frame.call>>)
  IN  IF reply.kind = "raise" THEN failed(reply.message)
      ELSE IF reply.kind = "null"
      THEN failed("Failed to generate proof - no proof returned")
      ELSE IF ~Has(reply.proof.extractedParameterValues, "response")
      THEN failed("Failed to extract response from proof")
      ELSE IF ~IsJson(reply.proof.extractedParameterValues.response)
      THEN failed("SyntaxError")
      ELSE LET response ==
                 JsonParse(reply.proof.extractedParameterValues.response)
           IN  Returned([text |-> ClaudeText(response),
                         proof |-> reply.proof,
                         timestamp |-> now,
                         model |-> frame.model,
                         provider |-> "reclaim",
                         rawResponse |-> response], <<frame.call>>)

\* verify up to `await verifyProof(result.proof)`
ClaudeVerifyBegin(result) ==
  [pc |-> "awaiting", proof |-> Get(result, "proof")]

\* verify from the collaborator's verdict on; this.endpoint is read here
ClaudeVerifyResume(config, frame, mood) ==
  LET verdict == verifyProof(frame.proof, mood)
  IN  IF verdict.raised
      THEN Returned(ClaudeErrorOutcome(verdict.message), <<frame.proof>>)
      ELSE Returned(ClaudeOutcome(verdict.isValid,
                                  ClaudeVerifiedEndpoint(config)),
                    <<frame.proof>>)

\* a client that keeps the request in flight in one place on the instance:
\* a resuming call finds what the latest call of its kind left there
FrameOf_Shared(fl, i) ==
  LET same == {j \in DOMAIN fl : fl[j].pc = "awaiting" /\ fl[j].op = fl[i].op}
  IN  fl[CHOOSE j \in same : \A k \in same : k <= j]

\* what a resuming call finds: its own arguments and locals
FrameOf(fl, i) == fl[i]

\* a frame also records which call it is: operation, arguments, the random
\* draw it may use, and the configuration of the clients when it began
Called(op, input, frame) ==
  [op |-> op, input |-> input, cfg |-> <<claude, eigen>>] @@ frame

ConcEigenGenerate(i) ==
  /\ flight[i].pc = "idle"
  /\ \E options \in ConcEigenOptions, g \in ConcSeeds :
       flight' = [flight EXCEPT ![i] =
                    Called("eigen.generate", options,
                           [g |-> g] @@ EigenGenerateBegin(options, g))]
  /\ UNCHANGED <<claude, eigen, held, origin, ser, last>>

ConcEigenVerify(i) ==
  /\ flight[i].pc = "idle"
  /\ \E result \in ConcEigenResults \cup ConcClaudeResults :
       flight' = [flight EXCEPT ![i] =
                    Called("eigen.verify", result, EigenVerifyBegin(result))]
  /\ UNCHANGED <<claude, eigen, held, origin, ser, last>>

ConcClaudeGenerate(i) ==
  /\ flight[i].pc = "idle"
  /\ \E options \in ConcClaudeOptions \cup {[prompt |-> ""]} :
       flight' = [flight EXCEPT ![i] =
                    Called("claude.generate", options,
                           ClaudeGenerateBegin(claude, options))]
  /\ UNCHANGED <<claude, eigen, held, origin, ser, last>>

ConcClaudeVerify(i) ==
  /\ flight[i].pc = "idle"
  /\ \E result \in ConcClaudeResults :
       flight' = [flight EXCEPT ![i] =
                    Called("claude.verify", result, ClaudeVerifyBegin(result))]
  /\ UNCHANGED <<claude, eigen, held, origin, ser, last>>

\* the answer arrives and the call runs to its return or throw
Resumed(i, env, now, r) ==
  flight' = [flight EXCEPT ![i] =
               [env |-> env, now |-> now, result |-> r]
               @@ [flight[i] EXCEPT !.pc = "done"]]

ConcResume(i) ==
  /\ flight[i].pc = "awaiting"
  /\ LET own == FrameOf(flight, i)
     IN  \E now \in Timestamps :
           CASE flight[i].op = "eigen.generate" ->
                  \E prov \in ProviderStates :
                    Resumed(i, prov, now, EigenGenerateResume(own, prov, now))
             [] flight[i].op = "eigen.verify" ->
                  \E prov \in ProviderStates :
                    Resumed(i, prov, now, EigenVerifyResume(eigen, own, prov))
             [] flight[i].op = "claude.generate" ->
                  \E reply \in ZkFetchReplies(own.call) :
                    Resumed(i, reply, now,
                            ClaudeGenerateResume(own, reply, now))
             [] flight[i].op = "claude.verify" ->
                  \E mood \in AttestorMoods :
                    Resumed(i, mood, now,
                            ClaudeVerifyResume(claude, own, mood))
  /\ UNCHANGED <<claude, eigen, held, origin, ser, last>>

\* the caller takes the result; the slot is free for the next call
ConcReturn(i) ==
  /\ flight[i].pc = "done"
  /\ flight' = [flight EXCEPT ![i] = IdleFrame]
  /\ UNCHANGED <<claude, eigen, held, origin, ser, last>>

NextConc ==
  \E i \in Slots :
    \/ ConcEigenGenerate(i)
    \/ ConcEigenVerify(i)
    \/ ConcClaudeGenerate(i)
    \/ ConcClaudeVerify(i)
    \/ ConcResume(i)
    \/ ConcReturn(i)

SpecConc == Init /\ [][NextConc]_vars

\* ------------------------------------------------------------------ claims
ClaudeVerifyOps == {"claude.verify", "claude.verifySerializedProof"}
EigenVerifyOps == {"eigen.verify", "eigen.verifySerializedProof"}
VerifyOps == ClaudeVerifyOps \cup EigenVerifyOps

\* the input the most recent verification call was given
VerifyInput ==
  IF last.op \in {"claude.verify", "eigen.verify"} THEN held ELSE ser

\* the proof the most recent transcript verification looked at
ProofOfInput ==
  IF last.op = "claude.verify" THEN Get(held, "proof")
  ELSE IF Has(ser, "proofJson") /\ IsJson(ser.proofJson)
  THEN JsonParse(ser.proofJson) ELSE Undefined

\* the attestation the most recent re-execution was given
AttestationOfInput ==
  IF last.op = "eigen.verify" THEN Get(held, "attestation")
  ELSE IF Has(ser, "attestationJson") /\ IsJson(ser.attestationJson)
  THEN JsonParse(ser.attestationJson) ELSE Undefined

\* the assistant text inside the response slice a proof carries
ProvenText(proof) ==
  IF /\ Has(proof, "extractedParameterValues")
     /\ Has(proof.extractedParameterValues, "response")
     /\ IsJson(proof.extractedParameterValues.response)
  THEN ClaudeText(JsonParse(proof.extractedParameterValues.response))
  ELSE <<"no response slice">>

\* C1: whenever transcript verification (verify or verifySerializedProof)
\* reports isValid = true, the text of the verified result or serialized
\* proof is the assistant text of the proven response slice.
C1_ValidImpliesTextProven ==
  (last.op \in ClaudeVerifyOps /\ Has(last, "out") /\ last.out.isValid)
    => VerifyInput.text = ProvenText(ProofOfInput)

\* something went wrong inside the most recent verification call: the
\* payload was missing or not JSON, the attestation could not be walked, or
\* the collaborator / provider raised
VerifyFailureOccurred ==
  CASE last.op = "claude.verify" ->
         verifyProof(Get(held, "proof"), last.env).raised
    [] last.op = "claude.verifySerializedProof" ->
         \/ ~Has(ser, "proofJson")
         \/ ~IsJson(ser.proofJson)
         \/ verifyProof(ProofOfInput, last.env).raised
    [] last.op = "eigen.verify" ->
         \/ ~AttestationShaped(Get(held, "attestation"))
         \/ last.env = "down"
    [] last.op = "eigen.verifySerializedProof" ->
         \/ ~Has(ser, "attestationJson")
         \/ ~IsJson(ser.attestationJson)
         \/ ~AttestationShaped(AttestationOfInput)
         \/ last.env = "down"
    [] OTHER -> FALSE

\* C2: verify and verifySerializedProof of both strategies never throw:
\* every call returns an outcome, and when a failure occurred the outcome
\* has isValid = false and an error message.
C2_VerifyNeverThrows ==
  last.op \in VerifyOps =>
    /\ ~last.threw
    /\ Has(last, "out")
    /\ Has(last.out, "isValid")
    /\ VerifyFailureOccurred =>
         (~last.out.isValid /\ Has(last.out, "error"))

\* a collaborator that raised on a result without a proof was contained
C2_Witness ==
  /\ last.op = "claude.verify"
  /\ ~Has(held, "proof")
  /\ last.env = "strict"
  /\ Has(last, "out") /\ Has(last.out, "error")

\* C3: verifySerializedProof(serializeResult(r)) returns the same outcome
\* as client.verify(r), for every result r generated by the client, under
\* the same collaborator behaviour.
C3_RoundTripSameOutcome ==
  (/\ last.op = "claude.verifySerializedProof"
   /\ origin.by = "claude.generate"
   /\ ser = VerifiableClaude_serializeResult(origin.result))
    => last.out = VerifiableClaude_verify(claude, origin.result,
                                          last.env).value

\* C4: a serialized proof tagged "reclaim" given to the EigenAI verifier, or
\* one tagged "eigenai" given to the Claude verifier, always yields a
\* ProviderMismatch error outcome and never isValid = true.
C4_StrategyIsolation ==
  (\/ last.op = "eigen.verifySerializedProof" /\ ser.provider = "reclaim"
   \/ last.op = "claude.verifySerializedProof" /\ ser.provider = "eigenai")
    => /\ Has(last, "out")
       /\ ~last.out.isValid
       /\ Has(last.out, "error")
       /\ last.out.error = "ProviderMismatch"

\* C5: a Claude client given a re-execution result rejects it with
\* StrategyMismatch and hands nothing to the verification collaborator; an
\* EigenAI client given a result tagged "reclaim" rejects it with
\* StrategyMismatch and issues no provider request.
C5_StrategyMismatchRejected ==
  (\/ /\ last.op = "claude.verify"
      /\ held.provider = "eigenai"
      /\ Has(held, "attestation") /\ ~Has(held, "proof")
   \/ /\ last.op = "eigen.verify"
      /\ held.provider = "reclaim")
    => /\ Has(last, "out")
       /\ ~last.out.isValid
       /\ Has(last.out, "error")
       /\ last.out.error = "StrategyMismatch"
       /\ last.calls = <<>>

\* the most recent re-execution was given exactly what generate produced
\* (or its serialization)
VerifiesPristineEigenResult ==
  /\ origin.by = "eigen.generate"
  /\ \/ last.op = "eigen.verify" /\ held = origin.result
     \/ /\ last.op = "eigen.verifySerializedProof"
        /\ ser = VerifiableEigenAI_serializeResult(origin.result)

\* C6: the provider request that verify / verifySerializedProof issues from
\* the attestation is identical, field for field, to the request generate
\* issued.
C6_ReExecutionRequestIdentical ==
  VerifiesPristineEigenResult => last.calls = <<origin.request>>

\* C7: against an unchanged, deterministic provider, verify(generate(o))
\* returns isValid = true and outputMatches = true for every options o.
C7_GenerateThenVerifyValid ==
  (/\ last.op = "eigen.verify"
   /\ origin.by = "eigen.generate"
   /\ held = origin.result
   /\ last.env = origin.provider)
    => /\ Has(last, "out")
       /\ last.out.isValid
       /\ Has(last.out, "outputMatches") /\ last.out.outputMatches

\* C8: every result of VerifiableEigenAI.generate records in
\* attestation.seed the seed sent in the provider request: the caller's
\* seed when one was supplied (0 included), an engine-assigned one
\* otherwise; no result lacks a seed.
C8_SeedRecorded ==
  (last.op = "eigen.generate" /\ ~last.threw) =>
    /\ Has(held.attestation, "seed")
    /\ last.calls # <<>>
    /\ held.attestation.seed = last.calls[1].seed
    /\ Has(last.options, "seed")
         => held.attestation.seed = last.options.seed
    /\ ~Has(last.options, "seed")
         => held.attestation.seed \in 0..(SeedRange - 1)

\* generate returned a result for a caller who supplied seed 0
C8_Witness ==
  /\ last.op = "eigen.generate"
  /\ ~last.threw
  /\ Has(last.options, "seed") /\ last.options.seed = 0
  /\ held.attestation.seed = 0

\* C9: every outcome of the re-execution verify / verifySerializedProof
\* (matched, mismatched, error) carries outputMatches, equal to isValid.
C9_OutputMatchesEqualsIsValid ==
  (last.op \in EigenVerifyOps /\ Has(last, "out")) =>
    /\ Has(last.out, "outputMatches")
    /\ last.out.outputMatches = last.out.isValid

\* an error outcome of the re-execution verifier
C9_Witness ==
  /\ last.op \in EigenVerifyOps
  /\ Has(last, "out")
  /\ Has(last.out, "error")
  /\ ~last.out.isValid

\* the provider answered the request the most recent re-execution issued
ProviderAnswered ==
  /\ last.op \in EigenVerifyOps
  /\ last.calls # <<>>
  /\ last.env # "down"

\* what the provider answered with: the content of the first choice, ""
\* when there is none
AnsweredText ==
  IF last.env = "mute" THEN <<>> ELSE Completion(last.env, last.calls[1])

\* C10: when the provider answers the re-issued request, the outcome
\* carries the re-executed text in reExecutedOutput, isValid holds iff that
\* text is exactly the stored text, and on a mismatch both texts are still
\* at hand.
C10_ExactComparison ==
  ProviderAnswered =>
    /\ Has(last, "out")
    /\ Has(last.out, "reExecutedOutput")
    /\ last.out.reExecutedOutput = AnsweredText
    /\ last.out.isValid <=> (AnsweredText = VerifyInput.text)
    /\ ~last.out.isValid => Has(VerifyInput, "text")

\* a mismatch between two texts that differ in letter case only
C10_Witness ==
  /\ ProviderAnswered
  /\ Has(last, "out")
  /\ ~last.out.isValid
  /\ last.out.reExecutedOutput # VerifyInput.text
  /\ Lower(last.out.reExecutedOutput) = Lower(VerifyInput.text)

GenerateOps == {"claude.generate", "eigen.generate"}

\* the collaborator or provider answer with which generate cannot succeed:
\* zkFetch raises or returns no proof, the proof carries no response slice
\* or one that is not JSON, the provider call raises
GenerateCannotSucceed ==
  IF last.op = "claude.generate"
  THEN \/ last.env.kind \in {"raise", "null"}
       \/ ~Has(last.env.proof.extractedParameterValues, "response")
       \/ ~IsJson(last.env.proof.extractedParameterValues.response)
  ELSE last.env = "down"

\* every field of the result type of the strategy is present
FullyPopulated(r) ==
  IF last.op = "claude.generate"
  THEN /\ DOMAIN r = {"text", "proof", "timestamp", "model", "provider",
                      "rawResponse"}
       /\ r.provider = "reclaim"
       /\ r.proof = last.env.proof
  ELSE /\ DOMAIN r = {"text", "attestation", "timestamp", "model",
                      "provider", "rawResponse"}
       /\ r.provider = "eigenai"
       /\ {"seed", "model", "requestParams"} \subseteq DOMAIN r.attestation
       /\ DOMAIN r.attestation.requestParams =
            {"messages", "temperature", "maxTokens"}

\* C12: generate of either strategy throws and leaves no result with the
\* caller when the collaborator returns no proof, the proof has no response
\* slice, the slice is not JSON or the provider call raises; otherwise the
\* result it returns has every field.
C12_GenerateAllOrNothing ==
  last.op \in GenerateOps =>
    /\ GenerateCannotSucceed => last.threw
    /\ last.threw => held = NoResult /\ Has(last, "error")
    /\ ~last.threw => FullyPopulated(held)

\* a dispatched generate that failed on what came back
C12_Witness ==
  /\ last.op \in GenerateOps
  /\ last.calls # <<>>
  /\ GenerateCannotSucceed
  /\ last.threw
  /\ held = NoResult

\* the message sequence of the request a generate call dispatched
DispatchedMessages ==
  IF last.op = "claude.generate"
  THEN JsonParse(last.calls[1].options.body).messages
  ELSE last.calls[1].messages

\* C13: a generate call of either strategy that dispatches a request
\* dispatches one with at least one message.
C13_NoEmptyDispatch ==
  (last.op \in GenerateOps /\ last.calls # <<>>) => DispatchedMessages # <<>>

\* C14: when verification of a transcript proof succeeds (verify or the
\* static verifySerializedProof), the reported verifiedEndpoint is the URL
\* the witnessed request was sent to, i.e. the generating client's endpoint.
C14_VerifiedEndpointIsWitnessedUrl ==
  (last.op \in ClaudeVerifyOps /\ ~last.threw /\ last.out.isValid) =>
    /\ Has(last.out, "verifiedEndpoint")
    /\ last.out.verifiedEndpoint = ProofOfInput.claimData.parameters.url

\* what of a serialized proof the static verification may look at
ProofJsonOnly(serialized) ==
  IF Has(serialized, "proofJson")
  THEN [proofJson |-> serialized.proofJson] ELSE Empty

\* C15: the outcome of the static verifySerializedProof is the outcome for
\* proofJson alone under the same collaborator verdict, whatever the other
\* fields, the clients and the held result are; a proof that verifies
\* still yields isValid = true once the result object is gone.
C15_StaticVerifyReadsProofJsonOnly ==
  last.op = "claude.verifySerializedProof" =>
    LET alone == VerifiableClaude_verifySerializedProof(
                   ProofJsonOnly(ser), last.env)
    IN  /\ ~last.threw
        /\ last.calls = alone.calls
        /\ last.out = alone.value
        /\ (/\ origin.by = "claude.generate"
            /\ Has(ser, "proofJson")
            /\ ser.proofJson = JsonStringify(origin.result.proof)
            /\ ~verifyProof(origin.result.proof, last.env).raised
            /\ verifyProof(origin.result.proof, last.env).isValid)
             => last.out.isValid

\* a serialized proof verified after the result object was dropped and
\* after its provider tag was rewritten
C15_Witness ==
  /\ last.op = "claude.verifySerializedProof"
  /\ held = NoResult
  /\ origin.by = "claude.generate"
  /\ ser.provider # "reclaim"
  /\ last.out.isValid

\* the credentials the two clients were configured with
Secrets == {claude.apiKey, claude.reclaimAppSecret, eigen.apiKey}

\* the strings found in the values the clients hand out, field by field
SeqStrings(q) == {q[i] : i \in 1..Len(q)}
MessageStrings(ms) == UNION {{ms[i].role, ms[i].content} : i \in 1..Len(ms)}
UrlStrings(u) == {u.base, u.path}
BodyStrings(document) ==
  LET b == JsonParse(document)
  IN  {b.model} \cup MessageStrings(b.messages)
      \cup (IF Has(b, "system") THEN {b.system} ELSE {})
      \cup (IF Has(b, "stop_sequences") THEN SeqStrings(b.stop_sequences)
            ELSE {})
ResponseStrings(response) ==
  (IF Has(response, "id") THEN {response.id} ELSE {})
  \cup (IF Has(response, "content")
        THEN UNION {{response.content[i].type}
                    \cup (IF Has(response.content[i], "text")
                          THEN SeqStrings(response.content[i].text) ELSE {}) :
                    i \in 1..Len(response.content)}
        ELSE {})
  \cup (IF Has(response, "choices")
        THEN UNION {SeqStrings(response.choices[i].message.content) :
                    i \in 1..Len(response.choices)}
        ELSE {})
ExtractedStrings(x) ==
  IF Has(x, "response") /\ IsJson(x.response)
  THEN ResponseStrings(JsonParse(x.response)) ELSE {}
ClaimDataStrings(cd) ==
  {cd.provider, cd.parameters.method}
  \cup UrlStrings(cd.parameters.url)
  \cup BodyStrings(cd.parameters.body)
  \cup UNION {{cd.parameters.responseMatches[i].type,
               cd.parameters.responseMatches[i].value} :
              i \in 1..Len(cd.parameters.responseMatches)}
  \cup ExtractedStrings(cd.context.extractedParameters)
ProofStrings(proof) ==
  {proof.identifier}
  \cup ClaimDataStrings(proof.claimData)
  \cup UNION {{proof.signatures[i].by}
              \cup ClaimDataStrings(proof.signatures[i].over) :
              i \in 1..Len(proof.signatures)}
  \cup UNION {{proof.witnesses[i].id, proof.witnesses[i].url} :
              i \in 1..Len(proof.witnesses)}
  \cup ExtractedStrings(proof.extractedParameterValues)
AttestationStrings(a) ==
  {a.model} \cup MessageStrings(a.requestParams.messages)
  \cup (IF Has(a, "requestId") THEN {a.requestId} ELSE {})
ResultStrings(r) ==
  SeqStrings(r.text) \cup {r.model, r.provider}
  \cup (IF Has(r, "proof") THEN ProofStrings(r.proof) ELSE {})
  \cup (IF Has(r, "attestation") THEN AttestationStrings(r.attestation)
        ELSE {})
  \cup (IF Has(r, "rawResponse") THEN ResponseStrings(r.rawResponse) ELSE {})
SerializedStrings(z) ==
  SeqStrings(z.text) \cup {z.model, z.provider}
  \cup (IF Has(z, "proofJson") /\ IsJson(z.proofJson)
        THEN ProofStrings(JsonParse(z.proofJson)) ELSE {})
  \cup (IF Has(z, "attestationJson") /\ IsJson(z.attestationJson)
        THEN AttestationStrings(JsonParse(z.attestationJson)) ELSE {})
PublicStrings(call) ==
  UrlStrings(call.url) \cup {call.options.method}
  \cup {call.options.headers[h] : h \in DOMAIN call.options.headers}
  \cup BodyStrings(call.options.body)

\* C17: generate hands the API key to zkFetch in the secret headers only,
\* never in the URL, the public headers or the body; no result, serialized
\* result or attestation holds the API key or the app secret.
C17_KeyOnlyInSecretHeaders ==
  /\ (last.op = "claude.generate" /\ last.calls # <<>>) =>
       /\ PublicStrings(last.calls[1]) \cap Secrets = {}
       /\ Has(last.calls[1].secretOptions.headers, "xApiKey")
       /\ last.calls[1].secretOptions.headers.xApiKey = claude.apiKey
  /\ held # NoResult => ResultStrings(held) \cap Secrets = {}
  /\ ser # NoSerialized => SerializedStrings(ser) \cap Secrets = {}

\* a generate that sent the key and returned a result with a proof
C17_Witness ==
  /\ last.op = "claude.generate"
  /\ ~last.threw
  /\ last.calls[1].secretOptions.headers.xApiKey = claude.apiKey
  /\ Has(held, "proof")
  /\ held.proof.claimData.parameters.body = last.calls[1].options.body

\* the pristine proof of the held result verifies under the collaborator
\* behaviour of the most recent call
PristineProofVerifies ==
  /\ origin.by = "claude.generate"
  /\ ~verifyProof(origin.result.proof, last.env).raised
  /\ verifyProof(origin.result.proof, last.env).isValid

ProofOnly(result) ==
  IF Has(result, "proof") THEN [proof |-> result.proof] ELSE Empty

\* C19: verify asks the collaborator about result.proof and nothing else:
\* isValid is the boolean verifyProof returns (false if it raises), and the
\* outcome is the outcome for the proof alone, whatever text, model,
\* timestamp and rawResponse are.
C19_VerifyDelegates ==
  last.op = "claude.verify" =>
    LET proof   == Get(held, "proof")
        verdict == verifyProof(proof, last.env)
        alone   == VerifiableClaude_verify(claude, ProofOnly(held), last.env)
    IN  /\ ~last.threw
        /\ last.calls = <<proof>>
        /\ last.out.isValid = (~verdict.raised /\ verdict.isValid)
        /\ last.out = alone.value

\* verify answering for a result whose text was rewritten
C19_Witness ==
  /\ last.op = "claude.verify"
  /\ origin.by = "claude.generate"
  /\ held.text # origin.result.text
  /\ held.proof = origin.result.proof
  /\ last.out.isValid

\* the input of the most recent verification is one the call can read: a
\* proof to hand over, an attestation to walk, a payload that parses
VerifyInputReadable ==
  CASE last.op = "claude.verify" -> TRUE
    [] last.op = "claude.verifySerializedProof" ->
         Has(ser, "proofJson") /\ IsJson(ser.proofJson)
    [] last.op \in EigenVerifyOps -> AttestationShaped(AttestationOfInput)

\* the outcome the most recent verification computes from its own input
\* and its own collaborator answer
FreshOutcome ==
  CASE last.op = "claude.verify" ->
         VerifiableClaude_verify(claude, held, last.env)
    [] last.op = "claude.verifySerializedProof" ->
         VerifiableClaude_verifySerializedProof(ser, last.env)
    [] last.op = "eigen.verify" ->
         VerifiableEigenAI_verify(eigen, held, last.env)
    [] last.op = "eigen.verifySerializedProof" ->
         VerifiableEigenAI_verifySerializedProof(eigen, ser, last.env)

\* C20: a generate call makes at most one outbound call; a verify or
\* verifySerializedProof call whose input can be read makes exactly one,
\* also when it repeats the call before it, and returns the outcome of
\* that call's own answer.
C20_OneOutboundCallPerCall ==
  /\ last.op \in GenerateOps => Len(last.calls) <= 1
  /\ last.op \in VerifyOps =>
       /\ Len(last.calls) <= 1
       /\ VerifyInputReadable => Len(last.calls) = 1
       /\ ~last.threw
       /\ last.out = FreshOutcome.value

\* a verification repeated on the same input that asked the collaborator
\* again
C20_Witness ==
  /\ last.op \in VerifyOps
  /\ last.again
  /\ VerifyInputReadable
  /\ Len(last.calls) = 1
  /\ last.out.isValid

\* what the call of a frame returns when it runs alone, with the same
\* arguments, the same random draw and the same collaborator answer
Alone(f) ==
  LET now == IF Has(f, "now") THEN f.now ELSE CHOOSE t \in Timestamps : TRUE
  IN  CASE f.op = "eigen.generate" ->
             VerifiableEigenAI_generate(
               f.cfg[2], f.input, f.g, now,
               IF Has(f, "env") THEN f.env ELSE "v1")
        [] f.op = "eigen.verify" ->
             VerifiableEigenAI_verify(
               f.cfg[2], f.input, IF Has(f, "env") THEN f.env ELSE "v1")
        [] f.op = "claude.generate" ->
             VerifiableClaude_generate(
               f.cfg[1], f.input,
               IF Has(f, "env") THEN f.env ELSE [kind |-> "null"], now)
        [] f.op = "claude.verify" ->
             VerifiableClaude_verify(f.cfg[1], f.input, f.env)

\* C16: in every interleaving of generate and verify calls on the two
\* clients, each finished call has returned what it returns when run alone
\* with the same collaborator answer, and the configuration of the clients
\* is what it was when the call began.
C16_ConcurrentCallsIndependent ==
  \A i \in Slots :
    flight[i].pc = "done" =>
      /\ flight[i].result = Alone(flight[i])
      /\ <<claude, eigen>> = flight[i].cfg

\* a generate that returned while another generate with other arguments
\* was still awaiting the provider
C16_Witness ==
  \E i, j \in Slots :
    /\ flight[i].pc = "done"
    /\ flight[j].pc = "awaiting"
    /\ flight[i].op = "eigen.generate"
    /\ flight[j].op = "eigen.generate"
    /\ ~flight[i].result.threw
    /\ flight[i].request # flight[j].request
    /\ i < j

\* the three ways the witnessed reply can fail generate
NoProofReturned == last.env.kind = "null"
NoResponseSlice ==
  /\ last.env.kind = "proof"
  /\ ~Has(last.env.proof.extractedParameterValues, "response")
MalformedSlice ==
  /\ last.env.kind = "proof"
  /\ Has(last.env.proof.extractedParameterValues, "response")
  /\ ~IsJson(last.env.proof.extractedParameterValues.response)

NoProofMessage == "Failed to generate proof - no proof returned"
NoSliceMessage == "Failed to extract response from proof"

\* C21: a VerifiableClaude.generate that fails on the witnessed reply tells
\* the caller which failure it was: no proof, no response slice and an
\* unparseable slice each have a message of their own.
C21_FailuresDistinguishable ==
  (last.op = "claude.generate" /\ last.threw /\ last.calls # <<>>) =>
    /\ NoProofReturned <=> last.error.message = NoProofMessage
    /\ NoResponseSlice <=> last.error.message = NoSliceMessage
    /\ MalformedSlice =>
         last.error.message \notin {NoProofMessage, NoSliceMessage}

\* a generate that failed on a slice that is not JSON
C21_Witness ==
  /\ last.op = "claude.generate"
  /\ last.threw
  /\ last.calls # <<>>
  /\ MalformedSlice
  /\ last.error.message = "SyntaxError"

SerializeOps == {"claude.serializeResult", "eigen.serializeResult"}

\* C22: the serialized form either client's serializeResult makes of a
\* result carries the result's provider tag, text, timestamp and model, and
\* as payload the JSON of the proof (tag "reclaim") or of the attestation
\* (tag "eigenai").
C22_SerializeDispatchesOnTag ==
  last.op \in SerializeOps =>
    /\ ser.provider = held.provider
    /\ ser.text = held.text
    /\ ser.timestamp = held.timestamp
    /\ ser.model = held.model
    /\ held.provider = "reclaim" =>
         /\ Has(ser, "proofJson")
         /\ ser.proofJson = JsonStringify(held.proof)
    /\ held.provider = "eigenai" =>
         /\ Has(ser, "attestationJson")
         /\ ser.attestationJson = JsonStringify(held.attestation)

\* the prefix by which a generate failure names its strategy
StrategyPrefix ==
  IF last.op = "claude.generate" THEN "Verifiable generation failed: "
  ELSE "EigenAI generation failed: "

\* C23: every error a generate call throws, the one for missing messages
\* and prompt included, starts with the prefix of its strategy.
C23_FailureNamesStrategy ==
  (last.op \in GenerateOps /\ last.threw) =>
    last.error.prefix = StrategyPrefix

\* C24: the seed generate assigns when the caller gives none is at least 1
\* and at most 2147483646.
C24_AssignedSeedPositive ==
  (last.op = "eigen.generate" /\ ~last.threw /\ ~Has(last.options, "seed")) =>
    /\ held.attestation.seed >= 1
    /\ held.attestation.seed <= SeedRange - 1

\* C25: a result VerifiableClaude.generate returns is tagged "reclaim" and
\* has a proof and no attestation; a result VerifiableEigenAI.generate
\* returns is tagged "eigenai" and has an attestation and no proof, and the
\* attestation's model is the result's model and the model sent.
C25_PayloadMatchesTag ==
  /\ (last.op = "claude.generate" /\ ~last.threw) =>
       /\ held.provider = "reclaim"
       /\ Has(held, "proof")
       /\ ~Has(held, "attestation")
  /\ (last.op = "eigen.generate" /\ ~last.threw) =>
       /\ held.provider = "eigenai"
       /\ Has(held, "attestation")
       /\ ~Has(held, "proof")
       /\ held.attestation.model = held.model
       /\ held.model = last.calls[1].model

\* an EigenAI result generated with a model the caller chose
C25_Witness ==
  /\ last.op = "eigen.generate"
  /\ ~last.threw
  /\ Has(last.options, "model")
  /\ held.attestation.model = last.options.model
  /\ held.attestation.model # DEFAULT_MODEL

\* C26: every outcome a verification returns has verifiedEndpoint exactly
\* when isValid is true, and an error only when isValid is false.
C26_OutcomeWellFormed ==
  (last.op \in VerifyOps /\ ~last.threw) =>
    /\ Has(last.out, "verifiedEndpoint") <=> last.out.isValid
    /\ Has(last.out, "error") => ~last.out.isValid

\* a proof the collaborator judged invalid without raising
C26_Witness ==
  /\ last.op \in ClaudeVerifyOps
  /\ ~last.threw
  /\ last.calls # <<>>
  /\ ~last.out.isValid
  /\ ~Has(last.out, "error")
  /\ ~Has(last.out, "verifiedEndpoint")

\* the options of the most recent generate name no conversation
NoInputGiven ==
  /\ ~Has(last.options, "messages")
  /\ ~TruthyStr(last.options, "prompt")

\* C27: a generate given neither messages nor a non-empty prompt throws
\* "Either 'messages' or 'prompt' must be provided" and has made no
\* outbound call.
C27_NoInputFailsBeforeDispatch ==
  (last.op \in GenerateOps /\ NoInputGiven) =>
    /\ last.threw
    /\ last.error.message = "Either 'messages' or 'prompt' must be provided"
    /\ last.calls = <<>>

\* an EigenAI generate given an empty prompt
C27_Witness ==
  /\ last.op = "eigen.generate"
  /\ Has(last.options, "prompt")
  /\ NoInputGiven
  /\ last.threw
  /\ last.calls = <<>>

ChatOps == {"claude.chat", "eigen.chat"}

\* the contents of the user messages a chat call sent
ChatUserContents ==
  LET ms == IF last.op = "claude.chat"
            THEN JsonParse(last.calls[1].options.body).messages
            ELSE last.calls[1].messages
      SelectUser(m) == m.role = "user"
      users == SelectSeq(ms, SelectUser)
  IN  [i \in 1..Len(users) |-> users[i].content]

\* C28: a chat call with a non-empty prompt argument sends a request with
\* exactly one user message, whose content is the prompt argument,
\* whatever its options hold.
C28_ChatSendsPromptArgument ==
  (last.op \in ChatOps /\ last.prompt # "") =>
    /\ last.calls # <<>>
    /\ ChatUserContents = <<last.prompt>>

\* the witnessed response decodes and holds no content item of type "text"
ResponseWithoutText ==
  /\ last.env.kind = "proof"
  /\ Has(last.env.proof.extractedParameterValues, "response")
  /\ IsJson(last.env.proof.extractedParameterValues.response)
  /\ LET response == JsonParse(last.env.proof.extractedParameterValues.response)
     IN  \/ ~Has(response, "content")
         \/ \A i \in 1..Len(response.content) :
              response.content[i].type # "text"

\* C29: a response without assistant text makes generate return a result
\* with the empty text, not throw; verify accepts such a result: the
\* collaborator's verdict stands, and a re-execution that yields the empty
\* text again matches.
C29_MissingTextIsEmptyText ==
  /\ (last.op = "claude.generate" /\ last.calls # <<>> /\ ResponseWithoutText)
       => ~last.threw /\ held.text = <<>>
  /\ (last.op = "eigen.generate" /\ last.calls # <<>> /\ last.env = "mute")
       => ~last.threw /\ held.text = <<>>
  /\ (/\ last.op = "eigen.verify"
      /\ held.text = <<>>
      /\ Has(last, "out")
      /\ Has(last.out, "reExecutedOutput")
      /\ last.out.reExecutedOutput = <<>>)
       => last.out.isValid
  /\ (/\ last.op = "claude.verify"
      /\ origin.by = "claude.generate"
      /\ held = origin.result
      /\ held.text = <<>>
      /\ last.env # "down")
       => last.out.isValid

\* a result generated from a provider answer without choices, verified by
\* a re-execution that has none either
C29_Witness ==
  /\ last.op = "eigen.verify"
  /\ origin.by = "eigen.generate"
  /\ origin.provider = "mute"
  /\ held = origin.result
  /\ held.text = <<>>
  /\ last.env = "mute"
  /\ last.out.isValid

\* what of a serialized proof the re-execution may look at
AttestationAndText(serialized) ==
  [f \in DOMAIN serialized \cap {"attestationJson", "text"} |-> serialized[f]]

\* C30: the outcome of VerifiableEigenAI.verifySerializedProof is the
\* outcome for attestationJson and text alone: the request takes its model
\* from the attestation, and top-level model, timestamp and provider change
\* neither request nor outcome.
C30_ReExecutionReadsAttestationAndText ==
  last.op = "eigen.verifySerializedProof" =>
    LET prov  == IF last.env = Unasked THEN "v1" ELSE last.env
        alone == VerifiableEigenAI_verifySerializedProof(
                   eigen, AttestationAndText(ser), prov)
    IN  /\ ~last.threw
        /\ last.calls = alone.calls
        /\ last.out = alone.value
        /\ last.calls # <<>> =>
             last.calls[1].model = JsonParse(ser.attestationJson).model

\* a serialized proof whose top-level model was rewritten and which still
\* verifies
C30_Witness ==
  /\ last.op = "eigen.verifySerializedProof"
  /\ last.calls # <<>>
  /\ ser.model = ForgedModel
  /\ last.calls[1].model # ForgedModel
  /\ last.out.isValid

====
